---- MODULE Spec2Model ----
(***************************************************************************)
(* Model of the JSON-backed inventory of "semana 11/inventario.py":        *)
(* the immutable value Producto, the repository Inventario with its        *)
(* primary map _items and its name index _by_name, and the JSON            *)
(* persistence (guardar_en_json / cargar_de_json).                         *)
(*                                                                         *)
(* Python strings are sequences of one-character strings, so that          *)
(* strip(), lower(), str(), int() and float() are computed and not         *)
(* assumed.  A Python float is [t |-> "num", n |-> k] or the value NaN;    *)
(* a JSON value is a string, a number, the literal NaN or null.            *)
(***************************************************************************)
EXTENDS Integers, Sequences, FiniteSets, TLC

\* ------------------------------------------------------------------ bounds
\* largest number of records in a document handed to cargar_de_json
MaxRegistros == 2

\* ------------------------------------------------------- Python strings
\* code point order of the characters the model uses (str comparison)
Ord(c) ==
    CASE c = " " -> 32
      [] c = "-" -> 45
      [] c = "0" -> 48
      [] c = "1" -> 49
      [] c = "2" -> 50
      [] c = "3" -> 51
      [] c = "4" -> 52
      [] c = "5" -> 53
      [] c = "6" -> 54
      [] c = "7" -> 55
      [] c = "8" -> 56
      [] c = "9" -> 57
      [] c = "A" -> 65
      [] c = "N" -> 78
      [] c = "P" -> 80
      [] c = "a" -> 97
      [] c = "e" -> 101
      [] c = "n" -> 110
      [] c = "o" -> 111
      [] c = "p" -> 112
      [] c = "q" -> 113

\* str.lower() on one character
LowerChar(c) ==
    CASE c = "A" -> "a"
      [] c = "N" -> "n"
      [] c = "P" -> "p"
      [] OTHER -> c

Lower(s) == [i \in 1..Len(s) |-> LowerChar(s[i])]

RECURSIVE LStrip(_)
LStrip(s) == IF s # <<>> /\ Head(s) = " " THEN LStrip(Tail(s)) ELSE s

RECURSIVE RStrip(_)
RStrip(s) ==
    IF s # <<>> /\ s[Len(s)] = " " THEN RStrip(SubSeq(s, 1, Len(s) - 1)) ELSE s

\* str.strip()
Strip(s) == RStrip(LStrip(s))

\* Inventario._norm_name
NormName(nombre) == Lower(Strip(nombre))

\* s < t for Python strings (lexicographic by code point)
RECURSIVE StrLt(_, _)
StrLt(s, t) ==
    IF t = <<>> THEN FALSE
    ELSE IF s = <<>> THEN TRUE
    ELSE IF Ord(Head(s)) # Ord(Head(t)) THEN Ord(Head(s)) < Ord(Head(t))
    ELSE StrLt(Tail(s), Tail(t))

\* q in key for Python strings (substring test)
IsSubstring(q, key) ==
    \E i \in 0..(Len(key) - Len(q)) : SubSeq(key, i + 1, i + Len(q)) = q

DigitChar(d) ==
    CASE d = 0 -> "0" [] d = 1 -> "1" [] d = 2 -> "2" [] d = 3 -> "3"
      [] d = 4 -> "4" [] d = 5 -> "5" [] d = 6 -> "6" [] d = 7 -> "7"
      [] d = 8 -> "8" [] d = 9 -> "9"

IsDigit(c) == Ord(c) >= 48 /\ Ord(c) <= 57

RECURSIVE NatStr(_)
NatStr(n) == IF n < 10 THEN <<DigitChar(n)>>
             ELSE NatStr(n \div 10) \o <<DigitChar(n % 10)>>

\* str(n) for an int
IntStr(n) == IF n < 0 THEN <<"-">> \o NatStr(-n) ELSE NatStr(n)

RECURSIVE DigitsVal(_)
DigitsVal(s) == IF s = <<>> THEN 0
                ELSE 10 * DigitsVal(SubSeq(s, 1, Len(s) - 1)) + (Ord(s[Len(s)]) - 48)

\* int(s) for a str: surrounding whitespace is ignored, one optional sign,
\* then decimal digits; anything else raises ValueError
ParseInt(s) ==
    LET u == Strip(s)
        neg == u # <<>> /\ Head(u) = "-"
        d == IF neg THEN Tail(u) ELSE u
    IN  IF d # <<>> /\ \A i \in 1..Len(d) : IsDigit(d[i])
        THEN [ok |-> TRUE, n |-> IF neg THEN -DigitsVal(d) ELSE DigitsVal(d)]
        ELSE [ok |-> FALSE, n |-> 0]

\* --------------------------------------------------------- Python floats
Num(k) == [t |-> "num", n |-> k]
NaN == [t |-> "nan", n |-> 0]

\* x < 0 for a float: every comparison with NaN is False
LtZero(x) == x.t = "num" /\ x.n < 0

\* x >= 0 for a float
GeZero(x) == x.t = "num" /\ x.n >= 0

\* x == y for floats: NaN is equal to nothing, itself included
FloatEq(x, y) == x.t = "num" /\ y.t = "num" /\ x.n = y.n

\* ----------------------------------------------------------- JSON values
JStr(s) == [t |-> "str", s |-> s, n |-> 0]
JNum(k) == [t |-> "num", s |-> <<>>, n |-> k]
JNaN == [t |-> "nan", s |-> <<>>, n |-> 0]
JNull == [t |-> "null", s |-> <<>>, n |-> 0]

\* str(v) of a value read from JSON
PyStr(v) ==
    CASE v.t = "str" -> v.s
      [] v.t = "num" -> IntStr(v.n)
      [] v.t = "nan" -> <<"n", "a", "n">>
      [] v.t = "null" -> <<"N", "o", "n", "e">>

\* int(v) of a value read from JSON; ok = FALSE when int() raises
PyInt(v) ==
    CASE v.t = "str" -> ParseInt(v.s)
      [] v.t = "num" -> [ok |-> TRUE, n |-> v.n]
      [] v.t = "nan" -> [ok |-> FALSE, n |-> 0]
      [] v.t = "null" -> [ok |-> FALSE, n |-> 0]

\* float(v) of a value read from JSON; ok = FALSE when float() raises
PyFloat(v) ==
    CASE v.t = "str" ->
            IF Lower(Strip(v.s)) = <<"n", "a", "n">> THEN [ok |-> TRUE, x |-> NaN]
            ELSE LET r == ParseInt(v.s)
                 IN  [ok |-> r.ok, x |-> Num(r.n)]
      [] v.t = "num" -> [ok |-> TRUE, x |-> Num(v.n)]
      [] v.t = "nan" -> [ok |-> TRUE, x |-> NaN]
      [] v.t = "null" -> [ok |-> FALSE, x |-> Num(0)]

\* ---------------------------------------------------------------- dicts
Put(f, k, v) == [x \in (DOMAIN f) \cup {k} |-> IF x = k THEN v ELSE f[x]]
Del(f, k) == [x \in (DOMAIN f) \ {k} |-> f[x]]
EmptyDict == [x \in {} |-> {}]

\* -------------------------------------------------------------- Producto
\* __post_init__ testing the name before the id
ValidarProducto_nombre_primero(id, nombre, cantidad, precio) ==
    IF nombre = <<>> THEN "bad-name"
    ELSE IF id = <<>> THEN "bad-id"
    ELSE IF cantidad < 0 THEN "bad-quantity"
    ELSE IF LtZero(precio) THEN "bad-price"
    ELSE "ok"

\* Producto.__post_init__: the kind of the first violated field, or "ok"
ValidarProducto(id, nombre, cantidad, precio) ==
    IF id = <<>> THEN "bad-id"
    ELSE IF nombre = <<>> THEN "bad-name"
    ELSE IF cantidad < 0 THEN "bad-quantity"
    ELSE IF LtZero(precio) THEN "bad-price"
    ELSE "ok"

\* Producto(id, nombre, cantidad, precio): err = "ok" and the value p, or
\* the kind of the ValueError the construction raises
Producto(id, nombre, cantidad, precio) ==
    [err |-> ValidarProducto(id, nombre, cantidad, precio),
     p |-> [id |-> id, nombre |-> nombre, cantidad |-> cantidad, precio |-> precio]]

\* con_cantidad building the copy without running __post_init__
con_cantidad_sin_validar(p, nueva_cantidad) ==
    [err |-> "ok",
     p |-> [id |-> p.id, nombre |-> p.nombre, cantidad |-> nueva_cantidad,
            precio |-> p.precio]]

\* int(nueva_cantidad) is the identity on the ints the callers pass
con_cantidad(p, nueva_cantidad) == Producto(p.id, p.nombre, nueva_cantidad, p.precio)

\* float(nuevo_precio) is the identity on floats, NaN included
con_precio(p, nuevo_precio) == Producto(p.id, p.nombre, p.cantidad, nuevo_precio)

con_nombre(p, nuevo_nombre) == Producto(p.id, nuevo_nombre, p.cantidad, p.precio)

\* the __eq__ the dataclass generates: field by field with Python's ==
ProductoEq(p, q) ==
    /\ p.id = q.id
    /\ p.nombre = q.nombre
    /\ p.cantidad = q.cantidad
    /\ FloatEq(p.precio, q.precio)

\* ------------------------------------------------------------ Inventario
_index_add(bn, p) ==
    LET key == NormName(p.nombre)
        ids == IF key \in DOMAIN bn THEN bn[key] ELSE {}
    IN  Put(bn, key, ids \cup {p.id})

\* _index_remove leaving the bucket it has emptied in the index
_index_remove_deja_vacio(bn, p) ==
    LET key == NormName(p.nombre)
    IN  IF key \in DOMAIN bn /\ bn[key] # {}
        THEN Put(bn, key, bn[key] \ {p.id})
        ELSE bn

_index_remove(bn, p) ==
    LET key == NormName(p.nombre)
    IN  IF key \in DOMAIN bn /\ bn[key] # {}
        THEN LET ids == bn[key] \ {p.id}
             IN  IF ids = {} THEN Del(bn, key) ELSE Put(bn, key, ids)
        ELSE bn

NoRet == [nada |-> TRUE]

\* the outcome of one call: the two maps afterwards, the failure kind
\* ("none" when the call returns) and the returned value
Resultado(it, bn, err, ret) == [items |-> it, byName |-> bn, err |-> err, ret |-> ret]

\* agregar with the index entry written before the duplicate guard
agregar_indexa_antes(it, bn, producto, sobrescribir) ==
    LET existe == producto.id \in DOMAIN it
    IN  IF existe /\ ~sobrescribir
        THEN Resultado(it, _index_add(bn, producto), "DuplicateId", NoRet)
        ELSE LET bn1 == IF existe THEN _index_remove(bn, it[producto.id]) ELSE bn
             IN  Resultado(Put(it, producto.id, producto), _index_add(bn1, producto),
                           "none", NoRet)

agregar(it, bn, producto, sobrescribir) ==
    LET existe == producto.id \in DOMAIN it
    IN  IF existe /\ ~sobrescribir
        THEN Resultado(it, bn, "DuplicateId", NoRet)
        ELSE LET bn1 == IF existe THEN _index_remove(bn, it[producto.id]) ELSE bn
             IN  Resultado(Put(it, producto.id, producto), _index_add(bn1, producto),
                           "none", NoRet)

\* eliminar reading the product with get instead of pop
eliminar_sin_pop(it, bn, id) ==
    IF id \notin DOMAIN it
    THEN Resultado(it, bn, "NotFound", NoRet)
    ELSE Resultado(it, _index_remove(bn, it[id]), "none", it[id])

eliminar(it, bn, id) ==
    IF id \notin DOMAIN it
    THEN Resultado(it, bn, "NotFound", NoRet)
    ELSE Resultado(Del(it, id), _index_remove(bn, it[id]), "none", it[id])

obtener_por_id(it, bn, id) ==
    IF id \notin DOMAIN it
    THEN Resultado(it, bn, "NotFound", NoRet)
    ELSE Resultado(it, bn, "none", it[id])

\* actualizar_cantidad testing the new quantity before it looks the id up
actualizar_cantidad_valida_antes(it, bn, id, nueva_cantidad) ==
    IF nueva_cantidad < 0
    THEN Resultado(it, bn, "bad-quantity", NoRet)
    ELSE IF id \notin DOMAIN it
    THEN Resultado(it, bn, "NotFound", NoRet)
    ELSE LET actualizado == con_cantidad(it[id], nueva_cantidad)
         IN  Resultado(Put(it, id, actualizado.p), bn, "none", actualizado.p)

actualizar_cantidad(it, bn, id, nueva_cantidad) ==
    IF id \notin DOMAIN it
    THEN Resultado(it, bn, "NotFound", NoRet)
    ELSE LET actualizado == con_cantidad(it[id], nueva_cantidad)
         IN  IF actualizado.err # "ok"
             THEN Resultado(it, bn, actualizado.err, NoRet)
             ELSE Resultado(Put(it, id, actualizado.p), bn, "none", actualizado.p)

\* actualizar_precio returning the product it read instead of the new one
actualizar_precio_devuelve_leido(it, bn, id, nuevo_precio) ==
    IF id \notin DOMAIN it
    THEN Resultado(it, bn, "NotFound", NoRet)
    ELSE LET actualizado == con_precio(it[id], nuevo_precio)
         IN  IF actualizado.err # "ok"
             THEN Resultado(it, bn, actualizado.err, NoRet)
             ELSE Resultado(Put(it, id, actualizado.p), bn, "none", it[id])

actualizar_precio(it, bn, id, nuevo_precio) ==
    IF id \notin DOMAIN it
    THEN Resultado(it, bn, "NotFound", NoRet)
    ELSE LET actualizado == con_precio(it[id], nuevo_precio)
         IN  IF actualizado.err # "ok"
             THEN Resultado(it, bn, actualizado.err, NoRet)
             ELSE Resultado(Put(it, id, actualizado.p), bn, "none", actualizado.p)

\* actualizar_nombre without the _index_remove of the old name
actualizar_nombre_sin_quitar(it, bn, id, nuevo_nombre) ==
    IF id \notin DOMAIN it
    THEN Resultado(it, bn, "NotFound", NoRet)
    ELSE LET actualizado == con_nombre(it[id], nuevo_nombre)
         IN  IF actualizado.err # "ok"
             THEN Resultado(it, bn, actualizado.err, NoRet)
             ELSE Resultado(Put(it, id, actualizado.p), _index_add(bn, actualizado.p),
                            "none", actualizado.p)

\* the old index entry is removed before the renamed copy is built, so a
\* rejected name leaves the index without the id
actualizar_nombre(it, bn, id, nuevo_nombre) ==
    IF id \notin DOMAIN it
    THEN Resultado(it, bn, "NotFound", NoRet)
    ELSE LET bn1 == _index_remove(bn, it[id])
             actualizado == con_nombre(it[id], nuevo_nombre)
         IN  IF actualizado.err # "ok"
             THEN Resultado(it, bn1, actualizado.err, NoRet)
             ELSE Resultado(Put(it, id, actualizado.p), _index_add(bn1, actualizado.p),
                            "none", actualizado.p)

\* the sort key without the id: the normalized name alone
ClaveLt_solo_nombre(p, q) == StrLt(NormName(p.nombre), NormName(q.nombre))

\* the sort key (normalized name, id) of listar_todos, compared as tuples
ClaveLt(p, q) ==
    \/ StrLt(NormName(p.nombre), NormName(q.nombre))
    \/ NormName(p.nombre) = NormName(q.nombre) /\ StrLt(p.id, q.id)

\* x put into the sorted sequence t behind every element whose key is not
\* greater than its own
Insertar(t, x) ==
    LET n == Cardinality({i \in 1..Len(t) : ~ClaveLt(x, t[i])})
    IN  SubSeq(t, 1, n) \o <<x>> \o SubSeq(t, n + 1, Len(t))

\* sorted(s, key = ...) and list.sort(key = ...): a stable sort, so elements
\* with equal keys keep the order they have in s
RECURSIVE Ordenar(_)
Ordenar(s) ==
    IF s = <<>> THEN <<>>
    ELSE Insertar(Ordenar(SubSeq(s, 1, Len(s) - 1)), s[Len(s)])

\* the orders in which a dict can hold the keys S (its insertion orders)
Permutaciones(S) ==
    {q \in [1..Cardinality(S) -> S] : \A i, j \in 1..Cardinality(S) : i # j => q[i] # q[j]}

\* self._items.values() when the dict holds its keys in the order orden
Valores(it, orden) == [i \in 1..Len(orden) |-> it[orden[i]]]

listar_todos(it, orden) == Ordenar(Valores(it, orden))

\* the (key, id) pairs buscar_por_nombre visits for the normalized query q:
\* the bucket of q, or every bucket whose key contains q
Coincidencias(bn, q, exacto) ==
    UNION {{<<key, id>> : id \in bn[key]} :
              key \in {k \in DOMAIN bn : IF exacto THEN k = q ELSE IsSubstring(q, k)}}

\* the orders in which the pairs can be visited: the buckets in the order
\* of the dict, the ids of one bucket in the order of its set
Recorridos(pares) ==
    {r \in Permutaciones(pares) :
        \A i, j, k \in 1..Len(r) :
            (i < j /\ j < k /\ r[i][1] = r[k][1]) => r[j][1] = r[i][1]}

\* buscar_por_nombre creating the bucket it does not find (setdefault)
buscar_por_nombre_setdefault(it, bn, nombre, exacto, recorrido) ==
    LET q == NormName(nombre)
        res == [i \in 1..Len(recorrido) |-> it[recorrido[i][2]]]
        bn1 == IF exacto /\ q \notin DOMAIN bn THEN Put(bn, q, {}) ELSE bn
    IN  IF \E i \in 1..Len(recorrido) : recorrido[i][2] \notin DOMAIN it
        THEN Resultado(it, bn1, "KeyError", NoRet)
        ELSE Resultado(it, bn1, "none", IF exacto THEN res ELSE Ordenar(res))

\* recorrido is the order in which the matching (key, id) pairs are visited;
\* self._items[i] raises KeyError for an id the primary map does not hold
buscar_por_nombre(it, bn, nombre, exacto, recorrido) ==
    LET res == [i \in 1..Len(recorrido) |-> it[recorrido[i][2]]]
    IN  IF \E i \in 1..Len(recorrido) : recorrido[i][2] \notin DOMAIN it
        THEN Resultado(it, bn, "KeyError", NoRet)
        ELSE Resultado(it, bn, "none", IF exacto THEN res ELSE Ordenar(res))

\* ----------------------------------------------------------- persistence
Campos == {"id", "nombre", "cantidad", "precio"}

\* asdict(p) as json.dump writes it and json.load reads it back: the two
\* strings, the int, and the float (json writes a NaN price as NaN)
asdict(p) ==
    [id |-> JStr(p.id), nombre |-> JStr(p.nombre), cantidad |-> JNum(p.cantidad),
     precio |-> IF p.precio.t = "nan" THEN JNaN ELSE JNum(p.precio.n)]

\* what json.load finds at the path: no file, text that is not JSON, a
\* JSON object, or a JSON list of objects
NoFile == [kind |-> "nofile", recs |-> <<>>]
BadJson == [kind |-> "badjson", recs |-> <<>>]
ObjectDoc == [kind |-> "object", recs |-> <<>>]
ListDoc(recs) == [kind |-> "list", recs |-> recs]

\* guardar_en_json writing the products in the order the dict holds them
guardar_sin_ordenar(it, orden) ==
    LET L == Valores(it, orden)
    IN  ListDoc([i \in 1..Len(L) |-> asdict(L[i])])

\* the document guardar_en_json writes
guardar_en_json(it, orden) ==
    LET L == listar_todos(it, orden)
    IN  ListDoc([i \in 1..Len(L) |-> asdict(L[i])])

\* the Producto(...) expression of cargar_de_json for one record, evaluated
\* left to right: err is "ok", or the exception that the except clause catches
ConstruirRegistro(obj) ==
    IF "id" \notin DOMAIN obj THEN [err |-> "KeyError", p |-> NoRet]
    ELSE IF "nombre" \notin DOMAIN obj THEN [err |-> "KeyError", p |-> NoRet]
    ELSE IF "cantidad" \notin DOMAIN obj THEN [err |-> "KeyError", p |-> NoRet]
    ELSE IF ~PyInt(obj.cantidad).ok THEN [err |-> "int()", p |-> NoRet]
    ELSE IF "precio" \notin DOMAIN obj THEN [err |-> "KeyError", p |-> NoRet]
    ELSE IF ~PyFloat(obj.precio).ok THEN [err |-> "float()", p |-> NoRet]
    ELSE Producto(PyStr(obj.id), PyStr(obj.nombre), PyInt(obj.cantidad).n,
                  PyFloat(obj.precio).x)

\* the loop passing over a record it cannot build instead of raising
RECURSIVE CargarRegistros_omite(_, _, _, _)
CargarRegistros_omite(it, bn, recs, i) ==
    IF i > Len(recs) THEN Resultado(it, bn, "none", NoRet)
    ELSE LET c == ConstruirRegistro(recs[i])
         IN  IF c.err # "ok"
             THEN CargarRegistros_omite(it, bn, recs, i + 1)
             ELSE LET r == agregar(it, bn, c.p, TRUE)
                  IN  CargarRegistros_omite(r.items, r.byName, recs, i + 1)

\* the for loop of cargar_de_json from record i on
RECURSIVE CargarRegistros(_, _, _, _)
CargarRegistros(it, bn, recs, i) ==
    IF i > Len(recs) THEN Resultado(it, bn, "none", NoRet)
    ELSE LET c == ConstruirRegistro(recs[i])
         IN  IF c.err # "ok"
             THEN Resultado(it, bn, "MalformedData",
                            [pos |-> i, registro |-> recs[i], causa |-> c.err])
             ELSE LET r == agregar(it, bn, c.p, TRUE)
                  IN  CargarRegistros(r.items, r.byName, recs, i + 1)

\* cargar_de_json clearing the maps before it looks at the root
cargar_limpia_antes(it, bn, doc, modo) ==
    LET it0 == IF modo = "reemplazar" THEN EmptyDict ELSE it
        bn0 == IF modo = "reemplazar" THEN EmptyDict ELSE bn
    IN  IF doc.kind = "nofile" THEN Resultado(it, bn, "IoFailure", NoRet)
        ELSE IF doc.kind = "badjson" THEN Resultado(it, bn, "JSONDecodeError", NoRet)
        ELSE IF doc.kind # "list" THEN Resultado(it0, bn0, "MalformedData", NoRet)
        ELSE CargarRegistros(it0, bn0, doc.recs, 1)

\* cargar_de_json clearing the maps whatever the mode
cargar_siempre_limpia(it, bn, doc, modo) ==
    IF doc.kind = "nofile" THEN Resultado(it, bn, "IoFailure", NoRet)
    ELSE IF doc.kind = "badjson" THEN Resultado(it, bn, "JSONDecodeError", NoRet)
    ELSE IF doc.kind # "list" THEN Resultado(it, bn, "MalformedData", NoRet)
    ELSE CargarRegistros(EmptyDict, EmptyDict, doc.recs, 1)

\* cargar_de_json never clearing the maps
cargar_nunca_limpia(it, bn, doc, modo) ==
    IF doc.kind = "nofile" THEN Resultado(it, bn, "IoFailure", NoRet)
    ELSE IF doc.kind = "badjson" THEN Resultado(it, bn, "JSONDecodeError", NoRet)
    ELSE IF doc.kind # "list" THEN Resultado(it, bn, "MalformedData", NoRet)
    ELSE CargarRegistros(it, bn, doc.recs, 1)

cargar_de_json(it, bn, doc, modo) ==
    IF doc.kind = "nofile" THEN Resultado(it, bn, "IoFailure", NoRet)
    ELSE IF doc.kind = "badjson" THEN Resultado(it, bn, "JSONDecodeError", NoRet)
    ELSE IF doc.kind # "list" THEN Resultado(it, bn, "MalformedData", NoRet)
    ELSE IF modo = "reemplazar"
         THEN CargarRegistros(EmptyDict, EmptyDict, doc.recs, 1)
         ELSE CargarRegistros(it, bn, doc.recs, 1)

\* --------------------------------------------------------------- inputs
Ids == {<<"A">>, <<"1">>}
Nombres == {<<"P">>, <<"p", " ">>, <<"p", "q">>}
Cantidades == {-1, 0, 1}
Precios == {Num(-1), Num(0), NaN}
Modos == {"reemplazar", "fusionar"}

\* the names searched for: one that normalizes to the key "p", one that
\* normalizes to "q", which is no key and is contained in the key "pq"
Consultas == {<<"P">>, <<"q", " ">>}

\* the field tuples a caller builds a Producto from: every name under every
\* id, with quantity 0 and price 0 or with quantity 1 and a NaN price; one
\* tuple with each single field invalid, and one with all four invalid
Entradas ==
    {<<id, nombre, 0, Num(0)>> : id \in Ids, nombre \in Nombres}
    \cup {<<id, nombre, 1, NaN>> : id \in Ids, nombre \in Nombres}
    \cup {<< <<>>, <<"P">>, 0, Num(0)>>, << <<"A">>, <<>>, 0, Num(0)>>,
          << <<"A">>, <<"P">>, -1, Num(0)>>, << <<"A">>, <<"P">>, 0, Num(-1)>>,
          << <<>>, <<>>, -1, Num(-1)>>}

\* the records of the documents handed to cargar_de_json: two that load
\* under the same id "1" (a numeric id; a quantity written as a string and
\* a NaN price), one without "precio", one whose name is empty
Registros ==
    { [id |-> JNum(1), nombre |-> JStr(<<"P">>),
       cantidad |-> JNum(1), precio |-> JNum(0)],
      [id |-> JStr(<<"1">>), nombre |-> JStr(<<"p", "q">>),
       cantidad |-> JStr(<<"0">>), precio |-> JNaN],
      [id |-> JStr(<<"A">>), nombre |-> JStr(<<"P">>), cantidad |-> JNum(1)],
      [id |-> JStr(<<"A">>), nombre |-> JStr(<<>>),
       cantidad |-> JNum(0), precio |-> JNum(0)] }

\* the sequences of at most n different elements of S
SeqsUpTo(S, n) ==
    UNION {{q \in [1..k -> S] : \A i, j \in 1..k : i # j => q[i] # q[j]} : k \in 0..n}

Docs == {NoFile, BadJson, ObjectDoc} \cup {ListDoc(r) : r \in SeqsUpTo(Registros, MaxRegistros)}

\* ---------------------------------------------------------------- state
\* items, byName: Inventario._items and Inventario._by_name.
\* op, arg, err, ret: the last public call, its arguments, the failure it
\* reported ("none" when it returned) and the value it returned.
\* antes: the two maps as they were when that call began.
VARIABLES items, byName, op, arg, err, ret, antes

vars == <<items, byName, op, arg, err, ret, antes>>

Init ==
    /\ items = EmptyDict
    /\ byName = EmptyDict
    /\ op = "init"
    /\ arg = NoRet
    /\ err = "none"
    /\ ret = NoRet
    /\ antes = [items |-> EmptyDict, byName |-> EmptyDict]

\* one call of a public operation with arguments a and outcome r
Llamada(nombre, a, r) ==
    /\ op' = nombre
    /\ arg' = a
    /\ items' = r.items
    /\ byName' = r.byName
    /\ err' = r.err
    /\ ret' = r.ret
    /\ antes' = [items |-> items, byName |-> byName]

\* inv.agregar(Producto(id, nombre, cantidad, precio), sobrescribir=...)
Agregar ==
    \E t \in Entradas, sobrescribir \in BOOLEAN :
        LET c == Producto(t[1], t[2], t[3], t[4])
            a == [id |-> t[1], nombre |-> t[2], cantidad |-> t[3],
                  precio |-> t[4], sobrescribir |-> sobrescribir]
        IN  IF c.err # "ok"
            THEN Llamada("agregar", a, Resultado(items, byName, c.err, NoRet))
            ELSE Llamada("agregar", a, agregar(items, byName, c.p, sobrescribir))

Eliminar ==
    \E id \in Ids : Llamada("eliminar", [id |-> id], eliminar(items, byName, id))

ObtenerPorId ==
    \E id \in Ids :
        Llamada("obtener_por_id", [id |-> id], obtener_por_id(items, byName, id))

ActualizarCantidad ==
    \E id \in Ids, cantidad \in Cantidades :
        Llamada("actualizar_cantidad", [id |-> id, cantidad |-> cantidad],
                actualizar_cantidad(items, byName, id, cantidad))

ActualizarPrecio ==
    \E id \in Ids, precio \in Precios :
        Llamada("actualizar_precio", [id |-> id, precio |-> precio],
                actualizar_precio(items, byName, id, precio))

ActualizarNombre ==
    \E id \in Ids, nombre \in Nombres \cup {<<>>} :
        Llamada("actualizar_nombre", [id |-> id, nombre |-> nombre],
                actualizar_nombre(items, byName, id, nombre))

\* the list is built from the dict in its order orden; open(ruta, "w")
\* then either fails (falla) or the document is written
GuardarEnJson ==
    \E falla \in BOOLEAN, orden \in Permutaciones(DOMAIN items) :
        Llamada("guardar_en_json", [falla |-> falla, orden |-> orden],
                IF falla THEN Resultado(items, byName, "IoFailure", NoRet)
                ELSE Resultado(items, byName, "none", guardar_en_json(items, orden)))

BuscarPorNombre ==
    \E nombre \in Consultas, exacto \in BOOLEAN :
        \E recorrido \in Recorridos(Coincidencias(byName, NormName(nombre), exacto)) :
            Llamada("buscar_por_nombre",
                    [nombre |-> nombre, exacto |-> exacto, recorrido |-> recorrido],
                    buscar_por_nombre(items, byName, nombre, exacto, recorrido))

ListarTodos ==
    \E orden \in Permutaciones(DOMAIN items) :
        Llamada("listar_todos", [orden |-> orden],
                Resultado(items, byName, "none", listar_todos(items, orden)))

CargarDeJson ==
    \E doc \in Docs, modo \in Modos :
        Llamada("cargar_de_json", [doc |-> doc, modo |-> modo],
                cargar_de_json(items, byName, doc, modo))

NextCrud ==
    \/ Agregar
    \/ Eliminar
    \/ ActualizarCantidad
    \/ ActualizarPrecio
    \/ ActualizarNombre

Next ==
    \/ Agregar
    \/ Eliminar
    \/ ActualizarCantidad
    \/ ActualizarPrecio
    \/ ActualizarNombre
    \/ ObtenerPorId
    \/ BuscarPorNombre
    \/ ListarTodos
    \/ GuardarEnJson
    \/ CargarDeJson

Spec == Init /\ [][Next]_vars

\* only agregar / eliminar / actualizar_* are called
SpecCrud == Init /\ [][NextCrud]_vars

\* Producto(id, nombre, cantidad, precio) on its own, for every combination
\* of valid and invalid fields
Construir ==
    \E id \in Ids \cup {<<>>}, nombre \in Nombres \cup {<<>>},
       cantidad \in Cantidades, precio \in Precios :
        LET c == Producto(id, nombre, cantidad, precio)
        IN  Llamada("Producto",
                    [id |-> id, nombre |-> nombre, cantidad |-> cantidad,
                     precio |-> precio],
                    IF c.err # "ok" THEN Resultado(items, byName, c.err, NoRet)
                    ELSE Resultado(items, byName, "none", c.p))

\* only Producto values are constructed
SpecProducto == Init /\ [][Construir]_vars

\* ------------------------------------------------------------ properties
\* the index that the primary map determines: one bucket per normalized
\* name in use, holding the ids of the products with that name
IndiceDerivado(it) ==
    [key \in {NormName(it[k].nombre) : k \in DOMAIN it} |->
        {k \in DOMAIN it : NormName(it[k].nombre) = key}]

\* C1: after any sequence of agregar / eliminar / actualizar_* calls, whether
\* they succeed or fail, every id k of _items is in the bucket of
\* _by_name for the normalized name of _items[k], and in no other bucket.
C1_IndiceCubrePrimario ==
    \A k \in DOMAIN items :
        LET key == NormName(items[k].nombre)
        IN  /\ key \in DOMAIN byName
            /\ k \in byName[key]
            /\ \A otra \in (DOMAIN byName) \ {key} : k \notin byName[otra]

\* C2: after every public operation no bucket of _by_name is empty, every
\* id in a bucket is a key of _items whose normalized name is the bucket's
\* key, and the index is exactly the one the primary map determines.
C2_IndiceExacto ==
    /\ \A key \in DOMAIN byName :
          /\ byName[key] # {}
          /\ \A k \in byName[key] :
                k \in DOMAIN items /\ NormName(items[k].nombre) = key
    /\ byName = IndiceDerivado(items)

\* C3: actualizar_nombre on an id that exists, with an empty new name, fails
\* with the validation error of the name, the primary map still holds the
\* product under its old name, and the id is still in the bucket of the
\* old normalized name.
C3_NombreVacioConservaIndice ==
    (op = "actualizar_nombre" /\ arg.id \in DOMAIN antes.items /\ arg.nombre = <<>>) =>
        /\ err = "bad-name"
        /\ items = antes.items
        /\ LET key == NormName(antes.items[arg.id].nombre)
           IN  key \in DOMAIN byName /\ arg.id \in byName[key]

\* C4: agregar without sobrescribir of a valid product whose id is already
\* present fails with DuplicateId and leaves the primary map and the whole
\* index as they were.
C4_DuplicadoRechazado ==
    (op = "agregar" /\ ~arg.sobrescribir /\ arg.id \in DOMAIN antes.items
        /\ ValidarProducto(arg.id, arg.nombre, arg.cantidad, arg.precio) = "ok") =>
        /\ err = "DuplicateId"
        /\ items = antes.items
        /\ byName = antes.byName

\* a rejected duplicate whose name differs from the stored one and has no
\* bucket
C4_Witness ==
    /\ op = "agregar"
    /\ err = "DuplicateId"
    /\ NormName(arg.nombre) \notin DOMAIN byName
    /\ items[arg.id].nombre # arg.nombre
    /\ byName = IndiceDerivado(items)

\* C5: cargar_de_json of a document whose root is not a list fails with
\* MalformedData and leaves the primary map and the index as they were, in
\* either mode: the root is checked before anything is cleared.
C5_RaizNoListaNoBorra ==
    (op = "cargar_de_json" /\ arg.doc.kind = "object") =>
        /\ err = "MalformedData"
        /\ items = antes.items
        /\ byName = antes.byName

\* a JSON object loaded in mode reemplazar over a non-empty inventory
C5_Witness ==
    /\ op = "cargar_de_json"
    /\ arg.doc.kind = "object"
    /\ arg.modo = "reemplazar"
    /\ err = "MalformedData"
    /\ DOMAIN items # {}

\* a record that lacks a field, or whose fields do not convert, or whose
\* converted fields Producto rejects
RegistroInvalido(obj) ==
    \/ ~(Campos \subseteq DOMAIN obj)
    \/ ~PyInt(obj.cantidad).ok
    \/ ~PyFloat(obj.precio).ok
    \/ ValidarProducto(PyStr(obj.id), PyStr(obj.nombre), PyInt(obj.cantidad).n,
                       PyFloat(obj.precio).x) # "ok"

Minimo(S) == CHOOSE i \in S : \A j \in S : i <= j

\* C6: cargar_de_json of a list fails with MalformedData exactly when some
\* record lacks a required field or is rejected by Producto, and the error
\* then carries the first such record of the document.
C6_PrimerRegistroInvalido ==
    (op = "cargar_de_json" /\ arg.doc.kind = "list") =>
        LET recs == arg.doc.recs
            malos == {i \in 1..Len(recs) : RegistroInvalido(recs[i])}
        IN  IF malos = {} THEN err = "none"
            ELSE /\ err = "MalformedData"
                 /\ ret.pos = Minimo(malos)
                 /\ ret.registro = recs[Minimo(malos)]

\* a document of two different invalid records: the first one is reported
C6_Witness ==
    /\ op = "cargar_de_json"
    /\ arg.doc.kind = "list"
    /\ Len(arg.doc.recs) = 2
    /\ \A i \in 1..2 : RegistroInvalido(arg.doc.recs[i])
    /\ err = "MalformedData"
    /\ ret.registro = arg.doc.recs[1]

\* C7: for a non-empty inventory, the document guardar_en_json writes,
\* loaded in mode reemplazar into a fresh Inventario, gives products equal
\* to the original ones (id, name, quantity, price) and an index that is
\* the one the loaded primary map determines.
C7_IdaYVuelta ==
    (op = "guardar_en_json" /\ err = "none" /\ DOMAIN items # {}) =>
        LET r == cargar_de_json(EmptyDict, EmptyDict, ret, "reemplazar")
        IN  /\ r.err = "none"
            /\ DOMAIN r.items = DOMAIN items
            /\ \A k \in DOMAIN items : ProductoEq(r.items[k], items[k])
            /\ r.byName = IndiceDerivado(r.items)

\* the ids of the records of a document, as cargar_de_json reads them
IdsArchivo(recs) == {PyStr(recs[i].id) : i \in 1..Len(recs)}

\* the position of the last record of the document with id k
UltimoCon(recs, k) ==
    CHOOSE i \in 1..Len(recs) :
        /\ PyStr(recs[i].id) = k
        /\ \A j \in (i + 1)..Len(recs) : PyStr(recs[j].id) # k

\* the product a record stands for
ProductoDeRegistro(obj) ==
    [id |-> PyStr(obj.id), nombre |-> PyStr(obj.nombre),
     cantidad |-> PyInt(obj.cantidad).n, precio |-> PyFloat(obj.precio).x]

\* C8: after a successful cargar_de_json in mode fusionar the ids of the
\* primary map are those held before together with those of the file; an
\* id of the file holds the values of the file (of its last record with
\* that id); every other id holds the product it held before.
C8_FusionNoBorra ==
    (op = "cargar_de_json" /\ arg.modo = "fusionar" /\ err = "none") =>
        LET recs == arg.doc.recs
            ids == IdsArchivo(recs)
        IN  /\ DOMAIN items = (DOMAIN antes.items) \cup ids
            /\ \A k \in ids : items[k] = ProductoDeRegistro(recs[UltimoCon(recs, k)])
            /\ \A k \in (DOMAIN antes.items) \ ids : items[k] = antes.items[k]

\* a merge of two records onto an inventory that holds an id of the file
\* with other values and an id the file does not have
C8_Witness ==
    /\ op = "cargar_de_json"
    /\ arg.modo = "fusionar"
    /\ err = "none"
    /\ Len(arg.doc.recs) = 2
    /\ DOMAIN antes.items = Ids
    /\ antes.items[<<"1">>] # items[<<"1">>]
    /\ items[<<"A">>] = antes.items[<<"A">>]

\* C9: after a successful cargar_de_json in mode reemplazar the primary map
\* holds exactly the ids of the file with the values of the file (of the
\* last record with that id), and the index holds only the buckets that
\* these products determine.
C9_ReemplazoDescarta ==
    (op = "cargar_de_json" /\ arg.modo = "reemplazar" /\ err = "none") =>
        LET recs == arg.doc.recs
            ids == IdsArchivo(recs)
        IN  /\ DOMAIN items = ids
            /\ \A k \in ids : items[k] = ProductoDeRegistro(recs[UltimoCon(recs, k)])
            /\ byName = IndiceDerivado(items)

\* a replace load of one record over an inventory holding another id and a
\* bucket that the file does not bring back
C9_Witness ==
    /\ op = "cargar_de_json"
    /\ arg.modo = "reemplazar"
    /\ err = "none"
    /\ Len(arg.doc.recs) = 1
    /\ <<"A">> \in DOMAIN antes.items
    /\ <<"A">> \notin DOMAIN items
    /\ \E key \in DOMAIN antes.byName : key \notin DOMAIN byName

\* C10: eliminar of a present id returns the product stored under it and
\* removes that id alone from the primary map; obtener_por_id of an absent
\* id fails with NotFound; and an absent id becomes present only through an
\* agregar of that id or a cargar_de_json of a file with that id.
C10_EliminarQuita ==
    /\ (op = "eliminar" /\ arg.id \in DOMAIN antes.items) =>
          /\ err = "none"
          /\ ret = antes.items[arg.id]
          /\ DOMAIN items = (DOMAIN antes.items) \ {arg.id}
          /\ \A k \in DOMAIN items : items[k] = antes.items[k]
    /\ (op = "obtener_por_id" /\ arg.id \notin DOMAIN antes.items) => err = "NotFound"
    /\ \A k \in (DOMAIN items) \ (DOMAIN antes.items) :
          \/ op = "agregar" /\ arg.id = k
          \/ /\ op = "cargar_de_json"
             /\ \E i \in 1..Len(arg.doc.recs) :
                   "id" \in DOMAIN arg.doc.recs[i] /\ PyStr(arg.doc.recs[i].id) = k

\* an eliminar that returns the product and leaves the other id in place
C10_Witness ==
    /\ op = "eliminar"
    /\ err = "none"
    /\ ret = antes.items[arg.id]
    /\ DOMAIN antes.items = Ids
    /\ DOMAIN items = Ids \ {arg.id}

\* the operations that begin by looking the id up
PorId == {"eliminar", "obtener_por_id", "actualizar_cantidad", "actualizar_precio",
          "actualizar_nombre"}

\* C11: eliminar, obtener_por_id, actualizar_cantidad, actualizar_precio and
\* actualizar_nombre of an id that is not a key of _items fail with NotFound,
\* whatever the new value is, and leave _items and _by_name as they were.
C11_AusenteNotFound ==
    (op \in PorId /\ arg.id \notin DOMAIN antes.items) =>
        /\ err = "NotFound"
        /\ items = antes.items
        /\ byName = antes.byName

\* a negative quantity for an absent id, in an inventory that holds the
\* other id
C11_Witness ==
    /\ op = "actualizar_cantidad"
    /\ arg.id \notin DOMAIN antes.items
    /\ arg.cantidad < 0
    /\ err = "NotFound"
    /\ DOMAIN items # {}

\* the maps after a call that changed at most the product stored under id
SoloCambia(id) ==
    /\ DOMAIN items = DOMAIN antes.items
    /\ \A k \in (DOMAIN items) \ {id} : items[k] = antes.items[k]
    /\ byName = antes.byName

\* C12: a successful actualizar_cantidad (actualizar_precio) stores under the
\* id a product with the id, the name and the price (the quantity) of the
\* previous one and the new quantity (price); the index and the products of
\* the other ids are as before, and the returned product is the stored one.
C12_ActualizaUnCampo ==
    /\ (op = "actualizar_cantidad" /\ err = "none") =>
          /\ arg.id \in DOMAIN antes.items
          /\ items[arg.id] = [antes.items[arg.id] EXCEPT !.cantidad = arg.cantidad]
          /\ SoloCambia(arg.id)
          /\ ret = items[arg.id]
    /\ (op = "actualizar_precio" /\ err = "none") =>
          /\ arg.id \in DOMAIN antes.items
          /\ items[arg.id] = [antes.items[arg.id] EXCEPT !.precio = arg.precio]
          /\ SoloCambia(arg.id)
          /\ ret = items[arg.id]

\* a price update that changes the stored price while the other id is held
C12_Witness ==
    /\ op = "actualizar_precio"
    /\ err = "none"
    /\ DOMAIN items = Ids
    /\ items[arg.id].precio # antes.items[arg.id].precio
    /\ ret = items[arg.id]

\* C13: actualizar_cantidad with a negative quantity, or actualizar_precio
\* with a negative price, on an id that exists fails with the validation
\* error of that field and leaves _items and _by_name as they were.
C13_ValorInvalidoNoCambia ==
    /\ (op = "actualizar_cantidad" /\ arg.id \in DOMAIN antes.items
            /\ arg.cantidad < 0) =>
          /\ err = "bad-quantity"
          /\ items = antes.items
          /\ byName = antes.byName
    /\ (op = "actualizar_precio" /\ arg.id \in DOMAIN antes.items
            /\ LtZero(arg.precio)) =>
          /\ err = "bad-price"
          /\ items = antes.items
          /\ byName = antes.byName

\* a rejected negative quantity for a stored product
C13_Witness ==
    /\ op = "actualizar_cantidad"
    /\ arg.id \in DOMAIN antes.items
    /\ arg.cantidad < 0
    /\ err = "bad-quantity"
    /\ items[arg.id].cantidad >= 0

\* C14: after a successful actualizar_nombre the id is in the bucket of the
\* normalized new name and in no other bucket (so not in the bucket of the
\* old name when that is another one); the bucket of the old name no longer
\* exists if the id was alone in it and otherwise keeps its other ids; every
\* other bucket is as before; the stored product is the previous one with
\* the new name, and the other products are as before.
C14_RenombrarMueveId ==
    (op = "actualizar_nombre" /\ err = "none") =>
        LET vieja == NormName(antes.items[arg.id].nombre)
            nueva == NormName(arg.nombre)
        IN  /\ nueva \in DOMAIN byName
            /\ arg.id \in byName[nueva]
            /\ \A key \in (DOMAIN byName) \ {nueva} : arg.id \notin byName[key]
            /\ (vieja # nueva /\ vieja \in DOMAIN antes.byName) =>
                  IF antes.byName[vieja] \subseteq {arg.id}
                  THEN vieja \notin DOMAIN byName
                  ELSE /\ vieja \in DOMAIN byName
                       /\ byName[vieja] = antes.byName[vieja] \ {arg.id}
            /\ \A key \in (DOMAIN antes.byName) \ {vieja, nueva} :
                  key \in DOMAIN byName /\ byName[key] = antes.byName[key]
            /\ \A k \in byName[nueva] \ {arg.id} :
                  nueva \in DOMAIN antes.byName /\ k \in antes.byName[nueva]
            /\ items[arg.id] = [antes.items[arg.id] EXCEPT !.nombre = arg.nombre]
            /\ DOMAIN items = DOMAIN antes.items
            /\ \A k \in (DOMAIN items) \ {arg.id} : items[k] = antes.items[k]

\* a rename out of a bucket shared with the other id into a new bucket
C14_Witness ==
    /\ op = "actualizar_nombre"
    /\ err = "none"
    /\ LET vieja == NormName(antes.items[arg.id].nombre)
       IN  /\ vieja \in DOMAIN antes.byName
           /\ antes.byName[vieja] = Ids
           /\ vieja \in DOMAIN byName
           /\ byName[vieja] = Ids \ {arg.id}
           /\ NormName(arg.nombre) \notin DOMAIN antes.byName

\* the elements of a sequence
Elementos(L) == {L[i] : i \in 1..Len(L)}

\* (normalized name, id) of a before that of b
EnOrden(nombreA, idA, nombreB, idB) ==
    \/ StrLt(NormName(nombreA), NormName(nombreB))
    \/ NormName(nombreA) = NormName(nombreB) /\ StrLt(idA, idB)

\* a sequence of products strictly ascending by (normalized name, id)
Ascendente(L) ==
    \A i \in 1..(Len(L) - 1) :
        EnOrden(L[i].nombre, L[i].id, L[i + 1].nombre, L[i + 1].id)

\* C15: buscar_por_nombre(nombre, exacto=True) returns, each once, exactly
\* the products of _items whose normalized name is the normalized query,
\* and the empty list when the query has no bucket.
C15_BusquedaExacta ==
    (op = "buscar_por_nombre" /\ arg.exacto) =>
        LET q == NormName(arg.nombre)
            esperados == {items[k] : k \in {j \in DOMAIN items :
                                              NormName(items[j].nombre) = q}}
        IN  /\ err = "none"
            /\ Elementos(ret) = esperados
            /\ Len(ret) = Cardinality(esperados)
            /\ q \notin DOMAIN byName => ret = <<>>

\* C16: buscar_por_nombre(nombre, exacto=False) returns, each once, exactly
\* the products of _items whose normalized name contains the normalized
\* query, ascending by (normalized name, id).
C16_BusquedaSubcadena ==
    (op = "buscar_por_nombre" /\ ~arg.exacto) =>
        LET q == NormName(arg.nombre)
            esperados == {items[k] : k \in {j \in DOMAIN items :
                                              IsSubstring(q, NormName(items[j].nombre))}}
        IN  /\ err = "none"
            /\ Elementos(ret) = esperados
            /\ Len(ret) = Cardinality(esperados)
            /\ Ascendente(ret)

\* C17: listar_todos returns every product of _items exactly once, ascending
\* by (normalized name, id), in whatever order the dict holds them: the
\* list is determined by the set of products.
C17_ListarOrdenado ==
    (op = "listar_todos") =>
        /\ err = "none"
        /\ Elementos(ret) = {items[k] : k \in DOMAIN items}
        /\ Len(ret) = Cardinality(DOMAIN items)
        /\ Ascendente(ret)

\* two products of one normalized name listed by id although the dict
\* holds them the other way round
C17_Witness ==
    /\ op = "listar_todos"
    /\ Len(ret) = 2
    /\ NormName(ret[1].nombre) = NormName(ret[2].nombre)
    /\ arg.orden = <<ret[2].id, ret[1].id>>

\* the operations that only read
SoloLectura == {"buscar_por_nombre", "listar_todos", "obtener_por_id", "guardar_en_json"}

\* C18: buscar_por_nombre (exact or not), listar_todos, obtener_por_id and
\* guardar_en_json leave _items and _by_name as they were, whether they
\* return or fail; an exact search for a name without bucket leaves the
\* index without a bucket for it.
C18_LecturaNoCambia ==
    (op \in SoloLectura) =>
        /\ items = antes.items
        /\ byName = antes.byName
        /\ (op = "buscar_por_nombre" /\ arg.exacto
                /\ NormName(arg.nombre) \notin DOMAIN antes.byName) =>
              NormName(arg.nombre) \notin DOMAIN byName

\* an exact search without bucket in an inventory that holds products
C18_Witness ==
    /\ op = "buscar_por_nombre"
    /\ arg.exacto
    /\ NormName(arg.nombre) \notin DOMAIN antes.byName
    /\ DOMAIN antes.byName # {}
    /\ err = "none"
    /\ ret = <<>>

C20_GuardaOrdenado ==
    (op = "guardar_en_json" /\ err = "none") =>
        LET recs == ret.recs
        IN  /\ ret.kind = "list"
            /\ Len(recs) = Cardinality(DOMAIN items)
            /\ Elementos(recs) = {asdict(items[k]) : k \in DOMAIN items}
            /\ \A i \in 1..(Len(recs) - 1) :
                  EnOrden(recs[i].nombre.s, recs[i].id.s,
                          recs[i + 1].nombre.s, recs[i + 1].id.s)

\* two records written in the order opposite to that of the dict
C20_Witness ==
    /\ op = "guardar_en_json"
    /\ err = "none"
    /\ Len(ret.recs) = 2
    /\ arg.orden = <<ret.recs[2].id.s, ret.recs[1].id.s>>

\* C21: agregar with sobrescribir onto an id whose stored product has
\* another normalized name takes the id out of the bucket of the old name
\* (the bucket no longer exists if the id was alone in it, and otherwise
\* keeps its other ids), so that afterwards the id is in the bucket of the
\* new name and in no other, and no exact search for the old name returns
\* the product of that id.
C21_SobrescribirReindexa ==
    (op = "agregar" /\ arg.sobrescribir /\ err = "none"
        /\ arg.id \in DOMAIN antes.items
        /\ NormName(antes.items[arg.id].nombre) # NormName(arg.nombre)) =>
        LET anterior == antes.items[arg.id]
            vieja == NormName(anterior.nombre)
            nueva == NormName(arg.nombre)
        IN  /\ nueva \in DOMAIN byName
            /\ arg.id \in byName[nueva]
            /\ \A key \in (DOMAIN byName) \ {nueva} : arg.id \notin byName[key]
            /\ vieja \in DOMAIN antes.byName =>
                  IF antes.byName[vieja] \subseteq {arg.id}
                  THEN vieja \notin DOMAIN byName
                  ELSE /\ vieja \in DOMAIN byName
                       /\ byName[vieja] = antes.byName[vieja] \ {arg.id}
            /\ items[arg.id].nombre = arg.nombre
            /\ \A recorrido \in Recorridos(Coincidencias(byName, vieja, TRUE)) :
                  LET r == buscar_por_nombre(items, byName, anterior.nombre, TRUE,
                                             recorrido)
                  IN  r.err = "none" /\ \A i \in 1..Len(r.ret) : r.ret[i].id # arg.id

\* an overwrite that moves the id out of a bucket it was alone in, while
\* the other id is stored too
C21_Witness ==
    /\ op = "agregar"
    /\ arg.sobrescribir
    /\ err = "none"
    /\ DOMAIN antes.items = Ids
    /\ LET vieja == NormName(antes.items[arg.id].nombre)
       IN  /\ vieja # NormName(arg.nombre)
           /\ vieja \in DOMAIN antes.byName
           /\ antes.byName[vieja] = {arg.id}
           /\ vieja \notin DOMAIN byName

\* C22: in every reachable state each product of _items is stored under
\* its own id, its id and its name are not empty, its quantity is >= 0 and
\* its price is >= 0.
C22_ProductosValidos ==
    \A k \in DOMAIN items :
        /\ items[k].id = k
        /\ items[k].id # <<>>
        /\ items[k].nombre # <<>>
        /\ items[k].cantidad >= 0
        /\ GeZero(items[k].precio)

\* the part of C22 that holds in every reachable state: own id, non-empty
\* id and name, and no negative quantity or price
C22_NingunNegativo ==
    \A k \in DOMAIN items :
        /\ items[k].id = k
        /\ items[k].id # <<>>
        /\ items[k].nombre # <<>>
        /\ items[k].cantidad >= 0
        /\ ~LtZero(items[k].precio)

\* the inventory that the records of prefijo, applied in order onto the
\* primary map base, must give: the ids of base and of prefijo, an id of
\* prefijo with the values of its last record, any other id as in base
PrefijoAplicado(base, prefijo) ==
    /\ DOMAIN items = (DOMAIN base) \cup IdsArchivo(prefijo)
    /\ \A k \in IdsArchivo(prefijo) :
          items[k] = ProductoDeRegistro(prefijo[UltimoCon(prefijo, k)])
    /\ \A k \in (DOMAIN base) \ IdsArchivo(prefijo) : items[k] = base[k]

\* C23: when cargar_de_json of a list fails on a record, the records before
\* it have been applied and no later one: in mode fusionar the primary map
\* is the previous one with those records merged in, in mode reemplazar it
\* holds those records only; in both modes the index is the one the
\* primary map determines.
C23_CargaParcial ==
    (op = "cargar_de_json" /\ arg.doc.kind = "list" /\ err = "MalformedData") =>
        LET recs == arg.doc.recs
            malos == {i \in 1..Len(recs) : RegistroInvalido(recs[i])}
            prefijo == SubSeq(recs, 1, Minimo(malos) - 1)
        IN  /\ IF arg.modo = "fusionar"
               THEN PrefijoAplicado(antes.items, prefijo)
               ELSE PrefijoAplicado(EmptyDict, prefijo)
            /\ byName = IndiceDerivado(items)

\* the two parts of C23 apart: what the primary map holds after the failed
\* load, and the index after a failed load that began with a sound index
\* or in mode reemplazar
C23_PrefijoYSinDefectoPrevio ==
    (op = "cargar_de_json" /\ arg.doc.kind = "list" /\ err = "MalformedData") =>
        LET recs == arg.doc.recs
            malos == {i \in 1..Len(recs) : RegistroInvalido(recs[i])}
            prefijo == SubSeq(recs, 1, Minimo(malos) - 1)
        IN  /\ IF arg.modo = "fusionar"
               THEN PrefijoAplicado(antes.items, prefijo)
               ELSE PrefijoAplicado(EmptyDict, prefijo)
            /\ (arg.modo = "reemplazar" \/ antes.byName = IndiceDerivado(antes.items)) =>
                  byName = IndiceDerivado(items)

====
